---- MODULE Spec2Model ----
(***************************************************************************)
(* Token lifecycle and upstream access of the BQE Core proxy (src/main.py). *)
(*                                                                         *)
(* State: the token file bqe_token.json, the configured seed refresh       *)
(* token, the wall clock, the identity endpoint's view of refresh tokens,   *)
(* and for every request being served its position in the code and the     *)
(* locals it holds.  One action per step that touches the file, the clock   *)
(* or the network.                                                          *)
(***************************************************************************)
EXTENDS Integers, Sequences, FiniteSets, TLC

VARIABLES
    now,        \* now_utc(): seconds on the wall clock
    file,       \* contents of TOKEN_FILE
    env,        \* BQE_REFRESH_TOKEN_ENV, read once at start-up
    issued,     \* number of exchanges the identity endpoint has granted
    validRT,    \* refresh tokens the identity endpoint currently accepts
    rotated,    \* refresh tokens it has replaced, and the latest one it issued
    saved,      \* the last save_token_file: how often, when, and from what
    req         \* per request: position in the code and locals

vars == <<now, file, env, issued, validRT, rotated, saved, req>>

-----------------------------------------------------------------------------
(* Bounds of the model *)

MaxTime == 60           \* the clock stops advancing here
MaxIssued == 2          \* exchanges the identity endpoint grants in one run
MaxPages == 2           \* full pages upstream serves to one pagination loop
MaxProjects == 2        \* projects in a list handed to a reshaping function

Procs == {1}            \* requests in flight (single-threaded serving)
Ticks == {30}           \* seconds the clock may jump between two steps
ExpiresIns == {60, 90}  \* expires_in values the identity endpoint reports
Statuses == {200, 401, 500}   \* status codes a resource GET may answer
Shapes == {"wrapped", "bare", "other", "malformed"}   \* bodies of a 200 answer

(* Program constants *)
MARGIN == 60            \* timedelta(seconds=token_data["expires_in"] - 60)
PAGE_SIZE == 100        \* "pageSize": 100 of the per-client loops

-----------------------------------------------------------------------------
(* Values *)

Absent == "absent"      \* a missing key / None / empty string
AccessNames == <<"A1", "A2", "A3", "A4", "A5">>
RefreshNames == <<"R1", "R2", "R3", "R4", "R5">>
SeedRT == "R0"          \* the refresh token configured in .env
OldRT == "Rold"         \* a refresh token persisted by an earlier run
OldAT == "A0"           \* an access token persisted by an earlier run

\* expires_at as stored: the key may be missing ("none"), hold something
\* fromisoformat() rejects or a naive timestamp ("bad"), or hold the ISO-8601
\* text of an aware UTC timestamp t ("iso").
ExpNone == [fmt |-> "none", t |-> 0]
ExpBad == [fmt |-> "bad", t |-> 0]
isoformat(t) == [fmt |-> "iso", t |-> t]

\* File contents: no file, a file json.load rejects, or a JSON object with any
\* of the three keys.
Dict(a, r, e) == [kind |-> "dict", access_token |-> a, refresh_token |-> r, expires_at |-> e]
Missing == [kind |-> "missing", access_token |-> Absent, refresh_token |-> Absent, expires_at |-> ExpNone]
Corrupt == [kind |-> "corrupt", access_token |-> Absent, refresh_token |-> Absent, expires_at |-> ExpNone]
\* the file just opened with mode "w": truncated, nothing written yet
Empty == [kind |-> "empty", access_token |-> Absent, refresh_token |-> Absent, expires_at |-> ExpNone]
None == [kind |-> "None", access_token |-> Absent, refresh_token |-> Absent, expires_at |-> ExpNone]

InitialFiles ==
    {Missing, Corrupt}
    \cup {Dict(a, r, e) : a \in {OldAT, Absent}, r \in {OldRT, SeedRT, Absent},
                          e \in {ExpNone, ExpBad, isoformat(0), isoformat(30)}}

\* the status query parameter of /projects: not given, or given with a text
NoParam == [present |-> FALSE, text |-> <<>>]
Param(text) == [present |-> TRUE, text |-> text]

\* what safe_get returned for /project: the parsed body
NoData == [shape |-> "bare", content |-> <<>>]

NoResp == [status |-> 0, access_token |-> Absent, refresh_token |-> Absent, expires_in |-> 0]

-----------------------------------------------------------------------------
(* Token Store *)

\* load_token_file: None when the file is missing or does not parse
load_token_file(f) == IF f.kind \in {"missing", "corrupt", "empty"} THEN None ELSE f

\* Python truth value of what load_token_file returned
Truthy(data) ==
    /\ data.kind = "dict"
    /\ \/ data.access_token # Absent
       \/ data.refresh_token # Absent
       \/ data.expires_at.fmt # "none"

\* the write lost
WriteFile_lost(f, data) == f

\* save_token_file: what the file holds after json.dump(data, f)
WriteFile(f, data) == data

-----------------------------------------------------------------------------
(* Token Manager *)

\* the expiry comparison reversed
CachedUsable_reversed(data, t) ==
    /\ Truthy(data)
    /\ data.expires_at.fmt = "iso"
    /\ data.expires_at.t < t
    /\ data.access_token # Absent

\* a token expiring at this very instant still counted as valid
CachedUsable_inclusive(data, t) ==
    /\ Truthy(data)
    /\ data.expires_at.fmt = "iso"
    /\ data.expires_at.t >= t
    /\ data.access_token # Absent

\* get_access_token, lines 69-75: the cached token is returned when the record
\* parses, its expires_at is later than now and it holds an access_token; any
\* exception in that block is swallowed.
CachedUsable(data, t) ==
    /\ Truthy(data)
    /\ data.expires_at.fmt = "iso"
    /\ data.expires_at.t > t
    /\ data.access_token # Absent

\* the stored refresh token ignored
ChooseRefreshToken_envonly(data, envrt) == envrt

\* line 76: the stored refresh token when the record has the key, else the
\* configured one
ChooseRefreshToken(data, envrt) ==
    IF Truthy(data) /\ data.refresh_token # Absent
    THEN data.refresh_token
    ELSE envrt

\* the emptiness check left out
NoRefreshToken_unchecked(refresh_token) == FALSE

\* line 77: if not refresh_token
NoRefreshToken(refresh_token) == refresh_token = Absent

\* a 401 taken to be dealt with by the refresh, whatever the retry answers
ShouldRaise_not401(status) == status \notin {200, 401}

\* line 93: if r.status_code != 200
ShouldRaise(status) == status # 200

\* half the safety margin
ExpiresAt_halfmargin(t, expires_in) == t + (expires_in - 30)

\* the safety margin left out
ExpiresAt_nomargin(t, expires_in) == t + expires_in

\* line 58: expires_at = now_utc() + timedelta(seconds=expires_in - 60)
ExpiresAt(t, expires_in) == t + (expires_in - MARGIN)

\* lines 59-63: the record refresh_access_token persists
NewRecord(token_data, refresh_token, t) ==
    Dict(token_data.access_token,
         IF token_data.refresh_token # Absent THEN token_data.refresh_token
                                              ELSE refresh_token,
         isoformat(ExpiresAt(t, token_data.expires_in)))

\* What the identity endpoint may answer to a refresh-token grant: a refusal
\* always; a grant only for a refresh token it accepts, with a fresh access
\* token, a lifetime, and either a rotated refresh token or none.
Grant(k, expires_in, rotate) ==
    [status |-> 200, access_token |-> AccessNames[k],
     refresh_token |-> IF rotate THEN RefreshNames[k] ELSE Absent,
     expires_in |-> expires_in]
Refusal == [status |-> 400, access_token |-> Absent, refresh_token |-> Absent, expires_in |-> 0]

-----------------------------------------------------------------------------
(* Requests *)

IdleReq ==
    [pc |-> "idle", op |-> "none", ctx |-> "none", forced |-> FALSE,
     rt |-> Absent, resp |-> NoResp, tok |-> Absent,
     page |-> 0, items |-> <<>>, total |-> 0,
     outcome |-> "none", code |-> 0,
     \* what the request has observed and done so far
     gets |-> 0, first |-> 0, last |-> 0, after401 |-> 0, retried |-> FALSE,
     pageGets |-> 0, clean |-> TRUE, garbled |-> FALSE,
     gat |-> "none", gatPosts |-> 0, gatSaves |-> 0,
     seen |-> None, seenNow |-> 0, pre |-> None,
     stale |-> FALSE, grantedAt |-> 0, record |-> None,
     \* the reshaping of get_projects and get_client_resources
     status |-> NoParam, data |-> NoData, filter |-> <<>>, projects |-> <<>>,
     resources |-> <<>>, idx |-> 0]

Init ==
    /\ now = 0
    /\ file \in InitialFiles
    /\ env \in {SeedRT, Absent}
    /\ issued = 0
    /\ validRT \in SUBSET {SeedRT, OldRT}
    /\ rotated = [replaced |-> {}, latest |-> Absent]
    /\ saved = [n |-> 0, at |-> 0, granted |-> 0, expires_in |-> 0, sent |-> Absent,
                got |-> Absent, prev |-> Absent]
    /\ req = [p \in Procs |-> IdleReq]

\* The request ends: it returns a response or an exception leaves the handler.
Ended(r, outcome, code) == [r EXCEPT !.pc = "done", !.outcome = outcome, !.code = code]

\* get_headers() is entered: get_access_token starts at line 68 with fresh
\* locals.
Enter(r, ctx) ==
    [r EXCEPT !.pc = "load", !.ctx = ctx, !.forced = FALSE,
              !.gat = "none", !.gatPosts = 0, !.gatSaves = 0,
              !.seen = None, !.seenNow = 0,
              !.rt = Absent, !.resp = NoResp, !.tok = Absent, !.pre = None,
              !.record = None, !.stale = FALSE]

\* the clock advances
Tick ==
    /\ \E d \in Ticks : now + d <= MaxTime /\ now' = now + d
    /\ UNCHANGED <<file, env, issued, validRT, rotated, saved, req>>

\* get_clients / get_projects: safe_get(url, params), line 86
StartSafeGet(p) ==
    /\ req[p].pc = "idle"
    /\ req' = [req EXCEPT ![p] = [Enter(IdleReq, "first") EXCEPT !.op = "safe_get"]]
    /\ UNCHANGED <<now, file, env, issued, validRT, rotated, saved>>

\* get_access_token, lines 68-78: load the file and decide
get_access_token(p) ==
    /\ req[p].pc = "load"
    /\ LET data == load_token_file(file)
           r == [req[p] EXCEPT !.seen = file, !.seenNow = now, !.pre = file]
       IN  req' = [req EXCEPT ![p] =
             IF CachedUsable(data, now)
             THEN [r EXCEPT !.pc = "get", !.tok = data.access_token, !.gat = "cached"]
             ELSE IF NoRefreshToken(ChooseRefreshToken(data, env))
             THEN [Ended(r, "RuntimeError: No refresh token", 500) EXCEPT !.gat = "raised"]
             ELSE [r EXCEPT !.pc = "post", !.rt = ChooseRefreshToken(data, env)]]
    /\ UNCHANGED <<now, file, env, issued, validRT, rotated, saved>>

\* refresh_access_token, lines 48-57: the POST to the identity endpoint
refresh_access_token(p) ==
    /\ req[p].pc = "post"
    /\ LET r == [req[p] EXCEPT !.gatPosts = @ + 1,
                               !.after401 = IF req[p].first = 401 THEN @ + 1 ELSE @,
                               !.stale = (req[p].rt \in rotated.replaced),
                               !.grantedAt = now]
       IN  \/ /\ req' = [req EXCEPT ![p] =
                    [Ended([r EXCEPT !.resp = Refusal],
                           "RuntimeError: Token refresh failed", 500)
                       EXCEPT !.gat = "raised"]]
              /\ UNCHANGED <<issued, validRT, rotated>>
           \/ /\ req[p].rt \in validRT
              /\ issued < MaxIssued
              /\ \E expires_in \in ExpiresIns, rotate \in BOOLEAN :
                    LET token_data == Grant(issued + 1, expires_in, rotate)
                    IN  /\ req' = [req EXCEPT ![p] = [r EXCEPT !.pc = "save", !.resp = token_data]]
                        /\ validRT' = IF rotate
                                      THEN (validRT \ {req[p].rt}) \cup {token_data.refresh_token}
                                      ELSE validRT
                        /\ rotated' = IF rotate
                                      THEN [replaced |-> rotated.replaced \cup {req[p].rt},
                                            latest |-> token_data.refresh_token]
                                      ELSE rotated
              /\ issued' = issued + 1
    /\ UNCHANGED <<now, file, env, saved>>

\* refresh_access_token, lines 58-65: build the record, save it, return
save_token_file(p) ==
    /\ req[p].pc = "save"
    /\ LET record == NewRecord(req[p].resp, req[p].rt, now)
           r == [req[p] EXCEPT !.tok = record.access_token, !.gatSaves = @ + 1,
                               !.record = record, !.grantedAt = 0]
       IN  /\ file' = WriteFile(file, record)
           /\ saved' = [n |-> saved.n + 1, at |-> now, granted |-> req[p].grantedAt,
                        expires_in |-> req[p].resp.expires_in,
                        sent |-> req[p].rt, got |-> req[p].resp.refresh_token,
                        prev |-> file.refresh_token]
           /\ req' = [req EXCEPT ![p] =
                 IF req[p].forced
                 THEN Enter(r, "retry")                       \* line 91: get_headers()
                 ELSE [r EXCEPT !.pc = "get", !.gat = "refreshed"]]
    /\ UNCHANGED <<now, env, issued, validRT, rotated>>

\* safe_get, lines 87-99: one requests.get and what follows it; a 200 body
\* that is not JSON is returned as [] (lines 96-99)
safe_get(p) ==
    /\ req[p].pc = "get"
    /\ req[p].ctx \in {"first", "retry"}
    /\ \E status \in Statuses, shape \in {"wrapped", "malformed"} :
         /\ status # 200 => shape = "wrapped"
         /\ LET r == [req[p] EXCEPT !.gets = @ + 1, !.last = status,
                                 !.first = IF req[p].ctx = "first" THEN status ELSE @,
                                 !.retried = (req[p].ctx = "retry"),
                                 !.garbled = (status = 200 /\ shape = "malformed")]
            IN  req' = [req EXCEPT ![p] =
               IF req[p].ctx = "first" /\ status = 401
               THEN [r EXCEPT !.pc = "post", !.rt = env, !.forced = TRUE,   \* line 90
                              !.gat = "none", !.gatPosts = 0, !.gatSaves = 0,
                              !.seen = None, !.seenNow = 0, !.pre = file]
               ELSE IF ShouldRaise(status)
               THEN Ended(r, "HTTPException", status)                       \* line 94
               ELSE Ended(r, "ok", 200)]
    /\ UNCHANGED <<now, file, env, issued, validRT, rotated, saved>>

\* get_client_resources / get_client_timeentries are entered: the client
\* lookup of lines 145 and 193 first evaluates get_headers()
StartClientResources(p) ==
    /\ req[p].pc = "idle"
    /\ req' = [req EXCEPT ![p] = [Enter(IdleReq, "lookup") EXCEPT !.op = "resources"]]
    /\ UNCHANGED <<now, file, env, issued, validRT, rotated, saved>>

StartClientTimeentries(p) ==
    /\ req[p].pc = "idle"
    /\ req' = [req EXCEPT ![p] = [Enter(IdleReq, "lookup") EXCEPT !.op = "timeentries"]]
    /\ UNCHANGED <<now, file, env, issued, validRT, rotated, saved>>

\* The collection upstream holds for the client: items 1..total, served in
\* pages of pageSize items; page k of it
Range(lo, hi) == [i \in 1..(IF hi >= lo THEN hi - lo + 1 ELSE 0) |-> lo + i - 1]
Min(a, b) == IF a <= b THEN a ELSE b
UpstreamPage(total, page, pageSize) ==
    Range((page - 1) * pageSize + 1, Min(page * pageSize, total))

\* sizes of the collections upstream may hold: up to MaxPages full pages and
\* a partial one
Totals == {k * (PAGE_SIZE \div 2) : k \in 0..(2 * MaxPages + 1)}

\* lines 163 and 211: the items of a parsed body, a dict with "items", a bare
\* list, or anything else
ItemsOf(shape, content) == IF shape \in {"wrapped", "bare"} THEN content ELSE <<>>

\* a 401 not counted as a failed page
PageFailed_not401(status) == status \notin {200, 401}

\* lines 158 and 206: if resp.status_code != 200: break
PageFailed(status) == status # 200

\* a full page taken for the last one
LastPage_inclusive(items) == Len(items) <= PAGE_SIZE

\* lines 167 and 215: if len(items) < 100: break
LastPage(items) == Len(items) < PAGE_SIZE

\* the page counter left where it is
NextPage_stuck(page) == page

\* lines 169 and 217: page += 1
NextPage(page) == page + 1

\* lines 145-151 and 193-199: GET /client/{id}; anything but 200 is a 404, and
\* client_resp.json() raises on a body that is not JSON
client_lookup(p) ==
    /\ req[p].pc = "get"
    /\ req[p].ctx = "lookup"
    /\ \E status \in Statuses, shape \in {"wrapped", "malformed"}, total \in Totals :
         /\ status # 200 => (shape = "wrapped" /\ total = 0)
         /\ shape = "malformed" => total = 0
         /\ LET r == [req[p] EXCEPT !.gets = @ + 1, !.last = status, !.first = status]
            IN  req' = [req EXCEPT ![p] =
                  IF status # 200
                  THEN Ended(r, "HTTPException", 404)
                  ELSE IF shape = "malformed"
                  THEN Ended(r, "JSONDecodeError", 500)
                  ELSE Enter([r EXCEPT !.page = 1, !.total = total], "page")]
    /\ UNCHANGED <<now, file, env, issued, validRT, rotated, saved>>

\* lines 153-169 and 201-217: GET one page; a status other than 200 or an empty
\* page ends the loop, a page shorter than 100 items is the last one;
\* resp.json() raises on a body that is not JSON
fetch_page(p) ==
    /\ req[p].pc = "get"
    /\ req[p].ctx = "page"
    /\ \E status \in Statuses, shape \in Shapes :
         /\ status # 200 => shape = "wrapped"
         /\ LET items == ItemsOf(shape, UpstreamPage(req[p].total, req[p].page, PAGE_SIZE))
                r == [req[p] EXCEPT !.gets = @ + 1, !.last = status, !.pageGets = @ + 1,
                                    !.clean = @ /\ status = 200 /\ shape \in {"wrapped", "bare"},
                                    !.garbled = @ \/ (status = 200 /\ shape = "malformed")]
            IN  req' = [req EXCEPT ![p] =
                  IF PageFailed(status)
                  THEN Ended(r, "ok", 200)
                  ELSE IF shape = "malformed"
                  THEN Ended(r, "JSONDecodeError", 500)
                  ELSE IF items = <<>>
                  THEN Ended(r, "ok", 200)
                  ELSE IF LastPage(items)
                  THEN Ended([r EXCEPT !.items = @ \o items], "ok", 200)
                  ELSE Enter([r EXCEPT !.items = @ \o items, !.page = NextPage(@)], "page")]
    /\ UNCHANGED <<now, file, env, issued, validRT, rotated, saved>>

\* the response has been sent; the worker is free again
Finish(p) ==
    /\ req[p].pc = "done"
    /\ req' = [req EXCEPT ![p] = IdleReq]
    /\ UNCHANGED <<now, file, env, issued, validRT, rotated, saved>>

Next ==
    \/ Tick
    \/ \E p \in Procs :
         \/ StartSafeGet(p)
         \/ get_access_token(p)
         \/ refresh_access_token(p)
         \/ save_token_file(p)
         \/ safe_get(p)
         \/ StartClientResources(p)
         \/ StartClientTimeentries(p)
         \/ client_lookup(p)
         \/ fetch_page(p)
         \/ Finish(p)

Spec == Init /\ [][Next]_vars

-----------------------------------------------------------------------------
(* get_projects: the status filter *)

\* Text is a sequence of characters
Whitespace == {" ", "\t", "\n"}
Uppers == <<"A", "C", "T", "I", "V", "E", "O", "M", "P", "L", "H", "D", "N">>
Lowers == <<"a", "c", "t", "i", "v", "e", "o", "m", "p", "l", "h", "d", "n">>

\* str.lower()
lower(s) ==
    [i \in 1..Len(s) |->
        IF \E k \in 1..Len(Uppers) : Uppers[k] = s[i]
        THEN Lowers[CHOOSE k \in 1..Len(Uppers) : Uppers[k] = s[i]]
        ELSE s[i]]

\* str.strip()
RECURSIVE lstrip(_)
lstrip(s) == IF s # <<>> /\ Head(s) \in Whitespace THEN lstrip(Tail(s)) ELSE s
RECURSIVE rstrip(_)
rstrip(s) ==
    IF s # <<>> /\ s[Len(s)] \in Whitespace THEN rstrip(SubSeq(s, 1, Len(s) - 1)) ELSE s
strip(s) == rstrip(lstrip(s))

\* the codes of complete and hold exchanged
STATUS_MAP_swapped ==
    (<<"a", "c", "t", "i", "v", "e">> :> 0) @@ (<<"c", "o", "m", "p", "l", "e", "t", "e">> :> 3)
    @@ (<<"h", "o", "l", "d">> :> 2) @@ (<<"i", "n", "a", "c", "t", "i", "v", "e">> :> 4)

\* lines 23-28
STATUS_MAP ==
    (<<"a", "c", "t", "i", "v", "e">> :> 0) @@ (<<"c", "o", "m", "p", "l", "e", "t", "e">> :> 2)
    @@ (<<"h", "o", "l", "d">> :> 3) @@ (<<"i", "n", "a", "c", "t", "i", "v", "e">> :> 4)

ALL == <<"a", "l", "l">>     \* applied_filter = "all"

\* the text compared as it was given
Recognized_verbatim(status) ==
    /\ status.present
    /\ status.text # <<>>
    /\ status.text \in DOMAIN STATUS_MAP

\* line 127: if status and status.strip().lower() in STATUS_MAP
Recognized(status) ==
    /\ status.present
    /\ status.text # <<>>
    /\ lower(strip(status.text)) \in DOMAIN STATUS_MAP

\* line 129: [p for p in items if p.get("status") == target_status]
FilterByStatus(items, target_status) ==
    SelectSeq(items, LAMBDA q : q.status = target_status)

\* a project without a "status" key: p.get("status") is None
NoStatus == -1
ProjectStatuses == {0, 1, 2, 3, 4, NoStatus}

\* the pages safe_get may have returned for /project
ProjectPages ==
    UNION {{[i \in 1..k |-> [id |-> i, status |-> f[i]]] : f \in [1..k -> ProjectStatuses]}
           : k \in 0..MaxProjects}

\* values of the status query parameter
StatusParams ==
    {NoParam} \cup
    {Param(t) : t \in {<<>>, <<" ">>,
                       <<"a", "c", "t", "i", "v", "e">>,
                       <<" ", "A", "c", "t", "i", "v", "e", " ">>,
                       <<"H", "O", "L", "D">>,
                       <<"\t", "C", "o", "m", "p", "l", "e", "t", "e">>,
                       <<"i", "n", "a", "c", "t", "i", "v", "e", "\n">>,
                       <<"a", "c", "t", " ", "i", "v", "e">>,
                       <<"d", "o", "n", "e">>,
                       <<"2">>}}

InitReshape ==
    /\ now = 0
    /\ file = Missing
    /\ env = Absent
    /\ issued = 0
    /\ validRT = {}
    /\ rotated = [replaced |-> {}, latest |-> Absent]
    /\ saved = [n |-> 0, at |-> 0, granted |-> 0, expires_in |-> 0, sent |-> Absent,
                got |-> Absent, prev |-> Absent]

\* safe_get has returned the page of /project
InitProjects ==
    /\ InitReshape
    /\ \E status \in StatusParams, shape \in {"wrapped", "bare"}, content \in ProjectPages :
          req = [p \in Procs |->
                   [IdleReq EXCEPT !.pc = "reshape", !.op = "projects", !.status = status,
                                   !.data = [shape |-> shape, content |-> content]]]

\* get_projects, lines 124-140
get_projects(p) ==
    /\ req[p].pc = "reshape"
    /\ req[p].op = "projects"
    /\ LET items == ItemsOf(req[p].data.shape, req[p].data.content)
           status == req[p].status
       IN  req' = [req EXCEPT ![p] =
             IF Recognized(status)
             THEN Ended([req[p] EXCEPT
                           !.projects = FilterByStatus(items, STATUS_MAP[lower(strip(status.text))]),
                           !.filter = lower(strip(status.text))],
                        "ok", 200)
             ELSE Ended([req[p] EXCEPT !.projects = items, !.filter = ALL], "ok", 200)]
    /\ UNCHANGED <<now, file, env, issued, validRT, rotated, saved>>

NextProjects == \E p \in Procs : get_projects(p)

SpecProjects == InitProjects /\ [][NextProjects]_vars

-----------------------------------------------------------------------------
(* get_client_resources: managers and principals *)

\* the first entry of a person kept
Put_keepfirst(resources, key, value) ==
    IF \E i \in 1..Len(resources) : resources[i].key = key
    THEN resources
    ELSE Append(resources, [key |-> key, value |-> value])

\* resources[key] = value on a dict: replaces the value of a key it holds,
\* in place, and appends a new key
Put(resources, key, value) ==
    IF \E i \in 1..Len(resources) : resources[i].key = key
    THEN [i \in 1..Len(resources) |->
            IF resources[i].key = key THEN [key |-> key, value |-> value] ELSE resources[i]]
    ELSE Append(resources, [key |-> key, value |-> value])

\* lines 174-175
WithManager(resources, q) ==
    IF q.managerId # Absent /\ q.manager # Absent
    THEN Put(resources, q.managerId, [name |-> q.manager, role |-> "Project Manager"])
    ELSE resources

\* lines 176-177
WithPrincipal(resources, q) ==
    IF q.principalId # Absent /\ q.principal # Absent
    THEN Put(resources, q.principalId, [name |-> q.principal, role |-> "Principal"])
    ELSE resources

\* an id and a name as a project may carry them; either may be missing or empty
Assignees ==
    {<<Absent, Absent>>, <<"a", "x">>, <<"a", "y">>, <<"b", "x">>,
     <<"a", Absent>>, <<Absent, "x">>}

ProjectRecords ==
    {[managerId |-> m[1], manager |-> m[2], principalId |-> q[1], principal |-> q[2]]
       : m \in Assignees, q \in Assignees}

ProjectLists == UNION {[1..k -> ProjectRecords] : k \in 0..MaxProjects}

\* the pagination loop has gathered the client's projects
InitResources ==
    /\ InitReshape
    /\ \E projects \in ProjectLists :
          req = [p \in Procs |->
                   [IdleReq EXCEPT !.pc = "extract", !.op = "resources",
                                   !.projects = projects, !.idx = 1]]

\* get_client_resources, lines 172-187: one project of the for loop, and the
\* return after the last
extract_resources(p) ==
    /\ req[p].pc = "extract"
    /\ req' = [req EXCEPT ![p] =
          IF req[p].idx > Len(req[p].projects)
          THEN Ended(req[p], "ok", 200)
          ELSE [req[p] EXCEPT
                  !.resources = WithPrincipal(WithManager(@, req[p].projects[req[p].idx]),
                                              req[p].projects[req[p].idx]),
                  !.idx = @ + 1]]
    /\ UNCHANGED <<now, file, env, issued, validRT, rotated, saved>>

NextResources == \E p \in Procs : extract_resources(p)

SpecResources == InitResources /\ [][NextResources]_vars

-----------------------------------------------------------------------------
(* Two requests served at once *)

\* FastAPI runs the handlers, plain def functions, on a thread pool: two
\* requests may be inside get_access_token at the same time.
ConcProcs == {1, 2}

\* token files holding nothing usable at start-up: none, or an expired record
ConcFiles ==
    {Missing, Dict(OldAT, OldRT, isoformat(0)), Dict(OldAT, Absent, isoformat(0))}

InitConc ==
    /\ now = 0
    /\ file \in ConcFiles
    /\ env = SeedRT
    /\ issued = 0
    /\ validRT = {SeedRT, OldRT}
    /\ rotated = [replaced |-> {}, latest |-> Absent]
    /\ saved = [n |-> 0, at |-> 0, granted |-> 0, expires_in |-> 0, sent |-> Absent,
                got |-> Absent, prev |-> Absent]
    /\ req = [p \in ConcProcs |-> IdleReq]

\* What the file holds after a writer that opened it before puts its bytes at
\* offset 0: its record when the file was still empty or the record covers what
\* another writer has put there since, else the record followed by the rest of
\* the other one, which json.load rejects.
Overlay(f, data, covers) == IF f.kind = "empty" \/ covers THEN data ELSE Corrupt

\* refresh_access_token lines 58-63 and save_token_file line 44: the record is
\* built and open(TOKEN_FILE, "w") truncates the file
open_token_file(p) ==
    /\ req[p].pc = "save"
    /\ file' = Empty
    /\ req' = [req EXCEPT ![p] =
          [req[p] EXCEPT !.pc = "dump", !.record = NewRecord(req[p].resp, req[p].rt, now)]]
    /\ UNCHANGED <<now, env, issued, validRT, rotated, saved>>

\* save_token_file line 45 and the end of the with block: the record reaches
\* the file; then lines 65 and 91
dump_token_file(p) ==
    /\ req[p].pc = "dump"
    /\ \E covers \in BOOLEAN : file' = Overlay(file, req[p].record, covers)
    /\ saved' = [n |-> saved.n + 1, at |-> now, granted |-> req[p].grantedAt,
                 expires_in |-> req[p].resp.expires_in,
                 sent |-> req[p].rt, got |-> req[p].resp.refresh_token,
                 prev |-> file.refresh_token]
    /\ LET r == [req[p] EXCEPT !.tok = req[p].record.access_token, !.gatSaves = @ + 1,
                               !.grantedAt = 0]
       IN  req' = [req EXCEPT ![p] =
             IF req[p].forced
             THEN Enter(r, "retry")
             ELSE [r EXCEPT !.pc = "get", !.gat = "refreshed"]]
    /\ UNCHANGED <<now, env, issued, validRT, rotated>>

NextConc ==
    \E p \in ConcProcs :
        \/ StartSafeGet(p)
        \/ get_access_token(p)
        \/ refresh_access_token(p)
        \/ open_token_file(p)
        \/ dump_token_file(p)
        \/ safe_get(p)

SpecConc == InitConc /\ [][NextConc]_vars

-----------------------------------------------------------------------------
(* Properties *)

\* The file get_access_token found held a record whose expires_at is later
\* than the clock it read.
FutureRecord(f, t) ==
    /\ f.kind = "dict"
    /\ f.access_token # Absent
    /\ f.expires_at.fmt = "iso"
    /\ f.expires_at.t > t

\* The file held no record, or one that has expired or carries no usable expiry.
ExpiredOrAbsent(f, t) ==
    \/ f.kind \in {"missing", "corrupt"}
    \/ f.kind = "dict" /\ ~(f.expires_at.fmt = "iso" /\ f.expires_at.t > t)

HasStoredRT(f) == f.kind = "dict" /\ f.refresh_token # Absent

\* get_access_token has read the file in the call the request is in
Loaded(r) == r.seen.kind # "None"

\* C1: whenever get_access_token finds a stored record whose expires_at is
\* strictly later than the current time, it returns exactly the stored
\* access_token, sends nothing to the identity endpoint and leaves the token
\* file as it found it.
C1_CachedTokenReturned ==
    \A p \in Procs :
        (Loaded(req[p]) /\ FutureRecord(req[p].seen, req[p].seenNow))
        => /\ req[p].gat = "cached"
           /\ req[p].tok = req[p].seen.access_token
           /\ req[p].gatPosts = 0
           /\ req[p].gatSaves = 0
           /\ file = req[p].seen

C1_Witness ==
    \E p \in Procs :
        /\ req[p].gat = "cached"
        /\ FutureRecord(req[p].seen, req[p].seenNow)
        /\ req[p].seenNow > 0
        /\ req[p].tok = AccessNames[1]

\* C2: whenever get_access_token finds no record or a record that is not valid
\* any more, and a refresh token is available, the call sends exactly one
\* refresh exchange, and when it returns a token the new record is already in
\* the file: the returned token is the granted one and the persisted one.
C2_OneRefreshPersistedBeforeReturn ==
    \A p \in Procs :
        (/\ Loaded(req[p])
         /\ ExpiredOrAbsent(req[p].seen, req[p].seenNow)
         /\ (HasStoredRT(req[p].seen) \/ env # Absent))
        => /\ req[p].gat # "cached"
           /\ req[p].outcome # "RuntimeError: No refresh token"
           /\ req[p].gatPosts = (IF req[p].pc = "post" THEN 0 ELSE 1)
           /\ req[p].gatSaves = (IF req[p].gat = "refreshed" THEN 1 ELSE 0)
           /\ req[p].gat = "refreshed"
                => /\ req[p].tok = req[p].resp.access_token
                   /\ file.kind = "dict"
                   /\ file.access_token = req[p].tok

C2_Witness ==
    \E p \in Procs :
        /\ req[p].gat = "refreshed"
        /\ req[p].seen.kind = "dict"
        /\ req[p].seen.expires_at = isoformat(req[p].seenNow)
        /\ req[p].gatPosts = 1
        /\ file.access_token = req[p].tok

\* C3: after every successful refresh the persisted refresh_token is the one
\* the response carried, and when the response carried none it is the one the
\* file held before (the one sent, when the file held none).
C3_RotationRetainsPrevious ==
    saved.n > 0
    => /\ file.kind = "dict"
       /\ file.refresh_token =
            IF saved.got # Absent THEN saved.got
            ELSE IF saved.prev # Absent THEN saved.prev
            ELSE saved.sent

TokenErrors == {"RuntimeError: No refresh token", "RuntimeError: Token refresh failed"}

\* C4: a finished safe_get call has sent at most two GETs; when its first GET
\* answered 401 and the token could be renewed, exactly one refresh exchange
\* followed the 401 and the GET was sent exactly once more; when its first GET
\* answered anything else there was neither an exchange after it nor a retry.
C4_OneRefreshOneRetry ==
    \A p \in Procs :
        (req[p].op = "safe_get" /\ req[p].pc = "done")
        => /\ req[p].gets <= 2
           /\ (req[p].first = 401 /\ req[p].outcome \notin TokenErrors)
                => (req[p].after401 = 1 /\ req[p].gets = 2 /\ req[p].retried)
           /\ req[p].first \in Statuses \ {401}
                => (req[p].after401 = 0 /\ req[p].gets = 1 /\ ~req[p].retried)

\* C5 as stated, in a deployment whose seed refresh token is configured: a
\* finished safe_get call whose last response was not 200 has failed with the
\* request error carrying that status, and a call that returned a body had a
\* last response of 200.
C5_LastStatusSurfaces ==
    \A p \in Procs :
        (req[p].op = "safe_get" /\ req[p].pc = "done" /\ req[p].gets > 0 /\ env # Absent)
        => /\ req[p].last # 200
                => (req[p].outcome = "HTTPException" /\ req[p].code = req[p].last)
           /\ req[p].outcome = "ok" => req[p].last = 200

\* C5: a finished safe_get call returns a body only when its last response was
\* 200.  When the last response was not 200 the call has failed: with the
\* request error carrying that status (so a second 401 surfaces as 401), unless
\* that response was the first 401 and renewing the token after it failed, in
\* which case the token error is what leaves the call and no retry was sent.
C5_LastStatusSurfacesUnlessRefreshFails ==
    \A p \in Procs :
        (req[p].op = "safe_get" /\ req[p].pc = "done" /\ req[p].gets > 0)
        => /\ req[p].outcome = "ok" => req[p].last = 200
           /\ req[p].last # 200
                => \/ req[p].outcome = "HTTPException" /\ req[p].code = req[p].last
                   \/ /\ req[p].outcome \in TokenErrors
                      /\ req[p].gets = 1
                      /\ req[p].last = 401
           /\ req[p].retried
                => (req[p].outcome = "HTTPException") = (req[p].last # 200)

C5_Witness ==
    \E p \in Procs :
        /\ req[p].op = "safe_get" /\ req[p].pc = "done"
        /\ req[p].gets = 2 /\ req[p].first = 401 /\ req[p].last = 401
        /\ req[p].outcome = "HTTPException" /\ req[p].code = 401

\* C6: in the per-client endpoints a 401 on the client lookup or on a page
\* request is followed by a token refresh and a retry of that request; the
\* request never ends with the 401 as its last answer unless a retry was sent.
C6_AggregationRetriesOn401 ==
    \A p \in Procs :
        (/\ req[p].op \in {"resources", "timeentries"}
         /\ req[p].pc = "done"
         /\ req[p].last = 401)
        => req[p].retried

\* C7: whenever the file holds a record this program wrote, its expires_at is
\* the time of the refresh that wrote it plus the expires_in the identity
\* endpoint reported, minus 60 seconds.
C7_ExpiryIsLifetimeMinusMargin ==
    saved.n > 0
    => /\ file.kind = "dict"
       /\ file.expires_at.fmt = "iso"
       /\ file.expires_at.t = saved.at + saved.expires_in - 60

C7_Witness ==
    /\ saved.n > 0
    /\ saved.at = 30
    /\ saved.expires_in = 90
    /\ file.expires_at = isoformat(60)

\* C8: whenever get_access_token finds no valid cached token and neither the
\* stored record nor the configuration holds a refresh token, the call fails
\* with "No refresh token", having sent nothing to the identity endpoint and
\* having left the token file as it found it.
C8_NoRefreshTokenIsConfigurationError ==
    \A p \in Procs :
        (/\ Loaded(req[p])
         /\ ~FutureRecord(req[p].seen, req[p].seenNow)
         /\ ~HasStoredRT(req[p].seen)
         /\ env = Absent)
        => /\ req[p].pc = "done"
           /\ req[p].outcome = "RuntimeError: No refresh token"
           /\ req[p].gatPosts = 0
           /\ req[p].gatSaves = 0
           /\ file = req[p].seen

C8_Witness ==
    \E p \in Procs :
        /\ req[p].outcome = "RuntimeError: No refresh token"
        /\ req[p].seen.kind = "dict"
        /\ req[p].seen.access_token = OldAT
        /\ req[p].seen.expires_at = isoformat(30)
        /\ req[p].seenNow = 30
        /\ file = req[p].seen

InSave == {p \in Procs : req[p].pc = "save"}

\* C9: a request that ended because the identity endpoint refused the exchange
\* left the token file exactly as it was when that refresh began; the file is
\* written once for every granted exchange and never otherwise, and once no
\* save is pending it holds the record of the latest grant.
C9_StoreWrittenOnlyOnSuccess ==
    /\ \A p \in Procs :
          (req[p].pc = "done" /\ req[p].outcome = "RuntimeError: Token refresh failed")
          => (file = req[p].pre /\ req[p].gatSaves = 0)
    /\ saved.n + Cardinality(InSave) = issued
    /\ issued = 0 => file \in InitialFiles
    /\ (issued > 0 /\ InSave = {})
          => (file.kind = "dict" /\ file.access_token = AccessNames[issued])

C9_Witness ==
    \E p \in Procs :
        /\ req[p].pc = "done"
        /\ req[p].outcome = "RuntimeError: Token refresh failed"
        /\ req[p].rt \in validRT
        /\ issued = 1
        /\ file.access_token = AccessNames[1]
        /\ file = req[p].pre

\* The file is missing or unparseable, or it parses but lacks expires_at or
\* holds a malformed one, or it lacks refresh_token and holds no valid token.
UnreadableStore(f, t) ==
    \/ f.kind \in {"missing", "corrupt"}
    \/ f.kind = "dict" /\ f.expires_at.fmt \in {"none", "bad"}
    \/ f.kind = "dict" /\ f.refresh_token = Absent /\ ~FutureRecord(f, t)

-----------------------------------------------------------------------------
(* Pagination *)

PerClient == {"resources", "timeentries"}

\* C11: while every page request of a per-client loop succeeds, the items
\* gathered are the upstream items of the pages before the current one, in
\* order; when the loop has ended, the result is the whole upstream collection,
\* every item once and in upstream order, and exactly the pages up to the first
\* one shorter than 100 items were requested, none beyond it.
C11_PaginationConcatenatesAllPages ==
    \A p \in Procs :
        (req[p].op \in PerClient /\ req[p].page > 0 /\ req[p].clean)
        => IF req[p].pc = "done" /\ req[p].outcome = "ok"
           THEN /\ req[p].items = Range(1, req[p].total)
                /\ req[p].pageGets = (req[p].total \div 100) + 1
                /\ req[p].page = req[p].pageGets
           ELSE /\ req[p].items = Range(1, 100 * (req[p].page - 1))
                /\ Len(req[p].items) <= req[p].total
                /\ req[p].pageGets \in {req[p].page - 1, req[p].page}

C11_Witness ==
    \E p \in Procs :
        /\ req[p].op = "resources" /\ req[p].pc = "done" /\ req[p].outcome = "ok"
        /\ req[p].clean
        /\ req[p].total = 250
        /\ Len(req[p].items) = 250
        /\ req[p].items[101] = 101
        /\ req[p].pageGets = 3

\* C12: when a page request of a per-client loop is answered with a status
\* other than 200, the loop stops there and the request succeeds with the
\* items of the pages before it, a prefix of the upstream collection.
C12_FailedPageGivesPartialResult ==
    \A p \in Procs :
        (/\ req[p].op \in PerClient
         /\ req[p].ctx = "page"
         /\ req[p].pageGets > 0
         /\ req[p].last # 200)
        => /\ req[p].pc = "done"
           /\ req[p].outcome = "ok"
           /\ req[p].pageGets = req[p].page
           /\ req[p].items = Range(1, 100 * (req[p].page - 1))
           /\ Len(req[p].items) <= req[p].total

C12_Witness ==
    \E p \in Procs :
        /\ req[p].op = "timeentries" /\ req[p].pc = "done" /\ req[p].outcome = "ok"
        /\ req[p].last = 500
        /\ req[p].page = 2
        /\ req[p].total = 250
        /\ Len(req[p].items) = 100

\* C13: when a page request of a per-client loop is answered 200 with a body
\* that is not JSON, the loop stops, the request succeeds and returns the items
\* gathered so far.
C13_MalformedPageIsEmptyPage ==
    \A p \in Procs :
        (/\ req[p].op \in PerClient
         /\ req[p].ctx = "page"
         /\ req[p].garbled)
        => /\ req[p].pc = "done"
           /\ req[p].outcome = "ok"
           /\ req[p].items = Range(1, 100 * (req[p].page - 1))

\* C17: a per-client loop over a finite collection is finite: the page counter
\* starts at 1 and is always one more than the number of full pages gathered,
\* the loop never sends more page requests than the collection has full pages
\* plus one, at most one of them after the last full page, and until the
\* request has ended it is obtaining a token for the next page request or is
\* about to send it.
C17_PaginationIsFinite ==
    \A p \in Procs :
        (req[p].op \in PerClient /\ req[p].page > 0)
        => /\ req[p].page = (Len(req[p].items) \div 100) + 1
              \/ (req[p].pc = "done" /\ Len(req[p].items) % 100 # 0)
           /\ req[p].page >= 1
           /\ req[p].pageGets <= (req[p].total \div 100) + 1
           /\ req[p].pageGets <= (Len(req[p].items) \div 100) + 1
           /\ req[p].pageGets \in {req[p].page - 1, req[p].page}
           /\ req[p].pc # "done" => req[p].pc \in {"load", "post", "save", "get"}
           /\ req[p].pc = "get" => ENABLED fetch_page(p)

C17_Witness ==
    \E p \in Procs :
        /\ req[p].op = "resources" /\ req[p].pc = "done"
        /\ req[p].total = 200
        /\ Len(req[p].items) = 200
        /\ req[p].page = 3
        /\ req[p].pageGets = 3

-----------------------------------------------------------------------------
(* Rotation, margin and the refresh token sent *)

\* C18: no refresh exchange is sent with a refresh token the identity endpoint
\* has already replaced, and once no save is pending the persisted
\* refresh_token is the one the identity endpoint issued last (the one the
\* exchange was sent with, when it never issued one).
C18_RotationHonoredThroughout ==
    /\ \A p \in Procs : req[p].gatPosts > 0 => ~req[p].stale
    /\ (saved.n > 0 /\ InSave = {})
          => file.refresh_token = (IF rotated.latest # Absent THEN rotated.latest
                                                               ELSE saved.sent)

\* C19 as stated: every access token get_access_token returns, from the cache
\* or from a refresh, has more than 60 seconds left of the lifetime upstream
\* reported, counted from the exchange that granted it.
C19_MoreThanMarginRemaining ==
    \A p \in Procs :
        saved.n > 0
        => /\ req[p].gat = "cached"
                => (saved.granted + saved.expires_in) - req[p].seenNow > 60
           /\ req[p].gat = "refreshed"
                => (saved.granted + saved.expires_in) - saved.at > 60

\* C19: a cached access token of a record this program wrote is returned only
\* while more than 60 seconds are left of the lifetime upstream reported,
\* counted from the moment the record was saved; a token obtained by a refresh
\* is the granted one and is returned as soon as it is saved, whatever lifetime
\* upstream reported.
C19_CachedMarginCountedFromSave ==
    \A p \in Procs :
        saved.n > 0
        => /\ req[p].gat = "cached"
                => /\ (saved.at + saved.expires_in) - req[p].seenNow > 60
                   /\ req[p].tok = file.access_token
           /\ req[p].gat = "refreshed"
                => /\ req[p].tok = req[p].resp.access_token
                   /\ req[p].resp.expires_in \in ExpiresIns
                   /\ saved.expires_in = req[p].resp.expires_in
                   /\ saved.at >= saved.granted

C19_Witness ==
    \E p \in Procs :
        /\ saved.n > 0
        /\ req[p].gat = "cached"
        /\ saved.granted < saved.at
        /\ (saved.granted + saved.expires_in) - req[p].seenNow <= 60
        /\ req[p].tok = AccessNames[1]

\* C20: no refresh exchange is sent with an absent or empty refresh token.
C20_NoExchangeWithoutRefreshToken ==
    \A p \in Procs : req[p].gatPosts > 0 => req[p].rt # Absent

-----------------------------------------------------------------------------
(* Reshaping *)

\* the assignments a list of projects makes, in input order: position 2i-1 is
\* the manager of project i, position 2i its principal
AssignmentAt(projects, k) ==
    LET q == projects[(k + 1) \div 2]
    IN  IF k % 2 = 1
        THEN [id |-> q.managerId, name |-> q.manager, role |-> "Project Manager"]
        ELSE [id |-> q.principalId, name |-> q.principal, role |-> "Principal"]

\* the positions among the first n projects that name a person with a
\* non-empty id and name
ValidAssignments(projects, n) ==
    {k \in 1..(2 * n) : AssignmentAt(projects, k).id # Absent
                        /\ AssignmentAt(projects, k).name # Absent}

LastAssignment(projects, n, id) ==
    CHOOSE k \in ValidAssignments(projects, n) :
        /\ AssignmentAt(projects, k).id = id
        /\ \A j \in ValidAssignments(projects, n) :
              AssignmentAt(projects, j).id = id => j <= k

\* C15: after any number of projects of the list, and in the returned result,
\* the resources hold exactly one entry for every person id that a manager or
\* principal assignment with non-empty id and name has named so far, and the
\* entry's name and role are those of the person's last assignment in input
\* order, the manager of a project before its principal.
C15_OneEntryPerPersonLastWins ==
    \A p \in Procs :
        (req[p].op = "resources" /\ req[p].pc \in {"extract", "done"} /\ req[p].idx > 0)
        => LET projects == req[p].projects
               n == req[p].idx - 1
               resources == req[p].resources
               valid == ValidAssignments(projects, n)
           IN  /\ Len(resources) = Cardinality({AssignmentAt(projects, k).id : k \in valid})
               /\ \A i, j \in 1..Len(resources) :
                     resources[i].key = resources[j].key => i = j
               /\ \A i \in 1..Len(resources) :
                     /\ \E k \in valid : AssignmentAt(projects, k).id = resources[i].key
                     /\ LET a == AssignmentAt(projects,
                                              LastAssignment(projects, n, resources[i].key))
                        IN  /\ resources[i].value.name = a.name
                            /\ resources[i].value.role = a.role
               /\ req[p].pc = "done" => n = Len(projects)

C15_Witness ==
    \E p \in Procs :
        /\ req[p].op = "resources" /\ req[p].pc = "done"
        /\ req[p].projects =
             <<[managerId |-> "a", manager |-> "x", principalId |-> Absent, principal |-> Absent],
               [managerId |-> "b", manager |-> "x", principalId |-> "a", principal |-> "y"]>>
        /\ req[p].resources =
             <<[key |-> "a", value |-> [name |-> "y", role |-> "Principal"]],
               [key |-> "b", value |-> [name |-> "x", role |-> "Project Manager"]]>>

\* the mapping as the claim states it
ClaimedCode ==
    (<<"a", "c", "t", "i", "v", "e">> :> 0) @@ (<<"c", "o", "m", "p", "l", "e", "t", "e">> :> 2)
    @@ (<<"h", "o", "l", "d">> :> 3) @@ (<<"i", "n", "a", "c", "t", "i", "v", "e">> :> 4)

\* C16: when the status parameter, trimmed and lower-cased, is one of active,
\* complete, hold, inactive, the returned projects are exactly the fetched
\* projects whose status is the mapped code 0, 2, 3, 4, in their order, and the
\* reported filter is the normalized name; for any other value or none, the
\* fetched projects are returned as they are and the reported filter is "all".
C16_StatusFilterExact ==
    \A p \in Procs :
        (req[p].op = "projects" /\ req[p].pc = "done")
        => LET fetched == req[p].data.content
               returned == req[p].projects
               name == lower(strip(req[p].status.text))
           IN  IF req[p].status.present /\ name \in DOMAIN ClaimedCode
               THEN /\ \A i \in 1..Len(returned) : returned[i].status = ClaimedCode[name]
                    /\ \A i \in 1..Len(fetched) :
                          fetched[i].status = ClaimedCode[name]
                          => \E j \in 1..Len(returned) : returned[j] = fetched[i]
                    /\ \A j \in 1..Len(returned) :
                          \E i \in 1..Len(fetched) : returned[j] = fetched[i]
                    /\ \A i, j \in 1..Len(returned) :
                          i < j => returned[i].id < returned[j].id
                    /\ req[p].filter = name
               ELSE /\ returned = fetched
                    /\ req[p].filter = ALL

C16_Witness ==
    \E p \in Procs :
        /\ req[p].op = "projects" /\ req[p].pc = "done"
        /\ req[p].status.text = <<"\t", "C", "o", "m", "p", "l", "e", "t", "e">>
        /\ req[p].data.content = <<[id |-> 1, status |-> 3], [id |-> 2, status |-> 2]>>
        /\ req[p].projects = <<[id |-> 2, status |-> 2]>>
        /\ req[p].filter = <<"c", "o", "m", "p", "l", "e", "t", "e">>

-----------------------------------------------------------------------------
(* Concurrency *)

\* the request found no valid token, sent its one exchange from
\* get_access_token, was refused only if the refresh token it sent had been
\* replaced in the meantime, and has finished without a forced refresh
RefreshedOnExpiry(r) ==
    /\ r.pc = "done"
    /\ r.first # 401
    /\ r.gatPosts = 1
    /\ r.outcome = "RuntimeError: Token refresh failed" => r.stale

\* C14: when two requests that both found no valid token have finished,
\* neither has failed for lack of a token, the file holds the complete record
\* one of them wrote, and the identity endpoint still accepts that record's
\* refresh token and has issued its access token.
C14_WorstCaseIsRedundantRefresh ==
    (\A p \in ConcProcs : RefreshedOnExpiry(req[p]))
    => /\ \A p \in ConcProcs : req[p].outcome \notin TokenErrors
       /\ file.kind = "dict"
       /\ \E p \in ConcProcs : file = req[p].record
       /\ file.refresh_token \in validRT
       /\ \E k \in 1..issued : file.access_token = AccessNames[k]

====
